---- MODULE Spec2Model ----
(***************************************************************************)
(* Model of contracts/eoslib/action.hpp: the typed C++ veneer over the     *)
(* host action API (current_action, unpack_action, require_recipient) and  *)
(* the permission_level / action envelope records with their stream        *)
(* operators, constructor and send().                                      *)
(***************************************************************************)
EXTENDS Integers, Sequences, FiniteSets, TLC

VARIABLES op, obj, stream, result, calls, inbound, notified, hostReports

vars == <<op, obj, stream, result, calls, inbound, notified, hostReports>>

(* ------------------------------ bounds --------------------------------- *)
MaxAuth == 2
MaxData == 2
MaxArgs == 3
MaxExtra == 1

(* --------------------------- program constants ------------------------- *)
IdWidth == 8
CountWidth == 4

(* ------------------------------ input sets ----------------------------- *)
Bytes == {0, 255}
Accounts == {1, 513}
Names == {2}
Recipients == {1, 2, 3}

Min(a, b) == IF a < b THEN a ELSE b

SeqsUpTo(S, n) == UNION {[1..k -> S] : k \in 0..n}

Prefix(s, n) == SubSeq(s, 1, n)

(* --------------------- datastream and raw:: primitives ----------------- *)
RECURSIVE ToLE(_, _)
ToLE(v, w) == IF w = 0 THEN <<>> ELSE <<v % 256>> \o ToLE(v \div 256, w - 1)

RECURSIVE FromLE(_)
FromLE(b) == IF b = <<>> THEN 0 ELSE Head(b) + 256 * FromLE(Tail(b))

datastream(buf) == [buf |-> buf, pos |-> 0, err |-> FALSE]

remaining(ds) == Len(ds.buf) - ds.pos

ds_read(ds, n) ==
  IF ds.err \/ remaining(ds) < n
    THEN [ds |-> [ds EXCEPT !.err = TRUE], val |-> <<>>]
    ELSE [ds |-> [ds EXCEPT !.pos = ds.pos + n],
          val |-> SubSeq(ds.buf, ds.pos + 1, ds.pos + n)]

ds_write(out, b) == out \o b

WriteScalar(out, v, w) == ds_write(out, ToLE(v, w))

ReadScalar(ds, w) ==
  LET r == ds_read(ds, w)
  IN  [ds |-> r.ds, val |-> IF r.ds.err THEN 0 ELSE FromLE(r.val)]

WriteU64(out, v) == WriteScalar(out, v, IdWidth)

ReadU64(ds) == ReadScalar(ds, IdWidth)

WriteCount(out, n) == WriteScalar(out, n, CountWidth)

ReadCount(ds) == ReadScalar(ds, CountWidth)

(* ------------------------------ permission_level ----------------------- *)
permission_level ==
  {[actor |-> 1, permission |-> 2], [actor |-> 513, permission |-> 2],
   [actor |-> 1, permission |-> 513]}

PermissionLevelWrite(out, a) == WriteU64(WriteU64(out, a.actor), a.permission)

(* Variant: the fields are read in the opposite order. *)
PermissionLevelRead_PermissionFirst(ds) ==
  LET r1 == ReadU64(ds)
      r2 == ReadU64(r1.ds)
  IN  [ds |-> r2.ds, val |-> [actor |-> r2.val, permission |-> r1.val]]

PermissionLevelRead(ds) ==
  LET r1 == ReadU64(ds)
      r2 == ReadU64(r1.ds)
  IN  [ds |-> r2.ds, val |-> [actor |-> r1.val, permission |-> r2.val]]

(* ------------------- raw::pack / raw::unpack of containers ------------- *)
RECURSIVE WriteElems(_, _)
WriteElems(out, v) ==
  IF v = <<>> THEN out ELSE WriteElems(PermissionLevelWrite(out, Head(v)), Tail(v))

PackVector(out, v) == WriteElems(WriteCount(out, Len(v)), v)

RECURSIVE ReadElems(_, _)
ReadElems(ds, n) ==
  IF n = 0 \/ ds.err THEN [ds |-> ds, val |-> <<>>]
  ELSE LET e == PermissionLevelRead(ds)
           rest == ReadElems(e.ds, n - 1)
       IN  [ds |-> rest.ds, val |-> <<e.val>> \o rest.val]

UnpackVector(ds) ==
  LET c == ReadCount(ds)
  IN  ReadElems(c.ds, c.val)

PackBytes(out, b) == ds_write(WriteCount(out, Len(b)), b)

UnpackBytes(ds) ==
  LET c == ReadCount(ds)
  IN  ds_read(c.ds, c.val)

(* ---------------------------------- action ----------------------------- *)
(* Variant: name is written before account. *)
ActionWrite_NameFirst(out, a) ==
  LET s1 == WriteU64(WriteU64(out, a.name), a.account)
      s2 == PackVector(s1, a.authorization)
  IN  PackBytes(s2, a.data)

ActionWrite(out, a) ==
  LET s1 == WriteU64(WriteU64(out, a.account), a.name)
      s2 == PackVector(s1, a.authorization)
  IN  PackBytes(s2, a.data)

(* Variant: the data field is not read. *)
ActionRead_NoData(ds) ==
  LET r1 == ReadU64(ds)
      r2 == ReadU64(r1.ds)
      r3 == UnpackVector(r2.ds)
  IN  [ds |-> r3.ds,
       val |-> [account |-> r1.val, name |-> r2.val,
                authorization |-> r3.val, data |-> <<>>]]

ActionRead(ds) ==
  LET r1 == ReadU64(ds)
      r2 == ReadU64(r1.ds)
      r3 == UnpackVector(r2.ds)
      r4 == UnpackBytes(r3.ds)
  IN  [ds |-> r4.ds,
       val |-> [account |-> r1.val, name |-> r2.val,
                authorization |-> r3.val, data |-> r4.val]]

(* raw::pack(value) into a fresh buffer; raw::unpack<T>(buffer, len) *)
NoValue == [type |-> "none"]

pack_permission_level(a) == PermissionLevelWrite(<<>>, a)

pack_action(a) == ActionWrite(<<>>, a)

unpack_permission_level(buf) ==
  LET r == PermissionLevelRead(datastream(buf))
  IN  IF r.ds.err
        THEN [status |-> "TruncatedInput", value |-> NoValue, consumed |-> r.ds.pos]
        ELSE [status |-> "ok", value |-> [type |-> "permission_level", val |-> r.val],
              consumed |-> r.ds.pos]

unpack_action_bytes(buf) ==
  LET r == ActionRead(datastream(buf))
  IN  IF r.ds.err
        THEN [status |-> "TruncatedInput", value |-> NoValue, consumed |-> r.ds.pos]
        ELSE [status |-> "ok", value |-> [type |-> "action", val |-> r.val],
              consumed |-> r.ds.pos]

(* --------------------- payload types and action_meta ------------------- *)
(* A payload type derives from action_meta<Account, Name> and reflects its *)
(* fields in order, each a fixed-width scalar of the given width.          *)
Transfer == [Account |-> 513, Name |-> 2, fields |-> <<"x", "y">>, width |-> 2]

Ping == [Account |-> 1, Name |-> 513, fields |-> <<"flag">>, width |-> 1]

PayloadTypes == {Transfer, Ping}

PayloadValues(T) ==
  IF T = Transfer THEN [x : {1, 258}, y : {2}] ELSE [flag : {0, 255}]

get_account(T) == T.Account

get_name(T) == T.Name

RECURSIVE PackFields(_, _, _, _)
PackFields(out, T, value, i) ==
  IF i > Len(T.fields) THEN out
  ELSE PackFields(WriteScalar(out, value[T.fields[i]], T.width), T, value, i + 1)

pack_payload(T, value) == PackFields(<<>>, T, value, 1)

(* Variant: account and name are taken from the wrong accessor. *)
ActionCtor_Swapped(auth, T, value) ==
  [account |-> get_name(T),
   name |-> get_account(T),
   authorization |-> auth,
   data |-> pack_payload(T, value)]

ActionCtor(auth, T, value) ==
  [account |-> get_account(T),
   name |-> get_name(T),
   authorization |-> auth,
   data |-> pack_payload(T, value)]

(* ------------------------------- host calls ---------------------------- *)
send_inline(bytes, len) == [fn |-> "send_inline", bytes |-> bytes, len |-> len]

(* Variant: only the payload bytes are packed and sent. *)
send_PayloadOnly(a) ==
  LET serialize == PackBytes(<<>>, a.data)
  IN  <<send_inline(serialize, Len(serialize))>>

send(a) ==
  LET serialize == pack_action(a)
  IN  <<send_inline(serialize, Len(serialize))>>

action_size == Len(inbound)

(* read_action(buffer, max_len): copies what fits of the inbound payload   *)
(* and returns the number of bytes copied or available, as the host does.  *)
read_action(max_len) ==
  LET n == Min(max_len, Len(inbound))
  IN  [fn |-> "read_action", max_len |-> max_len, copied |-> n,
       ret |-> IF hostReports = "copied" THEN n ELSE Len(inbound)]

host_require_recipient(name) ==
  [fn |-> "require_recipient", name |-> name, ok |-> name \in notified]

(* ------------------------- reading the inbound action ------------------ *)
(* T value; is uninitialised: the bytes read_action does not write keep    *)
(* the indeterminate content junk.                                         *)
(* Variant: the assertion is missing. *)
current_action_NoAssert(sizeofT, junk) ==
  LET read == read_action(sizeofT)
      value == Prefix(inbound, read.copied) \o SubSeq(junk, read.copied + 1, sizeofT)
  IN  [calls |-> <<read>>,
       result |-> [status |-> "ok", value |-> [type |-> "raw", val |-> value],
                   consumed |-> sizeofT]]

(* Variant: the assertion only requires a non-empty read. *)
current_action_NonEmpty(sizeofT, junk) ==
  LET read == read_action(sizeofT)
      value == Prefix(inbound, read.copied) \o SubSeq(junk, read.copied + 1, sizeofT)
  IN  [calls |-> <<read>>,
       result |-> IF read.ret > 0
                    THEN [status |-> "ok", value |-> [type |-> "raw", val |-> value],
                          consumed |-> sizeofT]
                    ELSE [status |-> "ShortRead", value |-> NoValue, consumed |-> 0]]

(* Variant: the assertion requires the exact length. *)
current_action_ExactLength(sizeofT, junk) ==
  LET read == read_action(sizeofT)
      value == Prefix(inbound, read.copied) \o SubSeq(junk, read.copied + 1, sizeofT)
  IN  [calls |-> <<read>>,
       result |-> IF read.ret = sizeofT
                    THEN [status |-> "ok", value |-> [type |-> "raw", val |-> value],
                          consumed |-> sizeofT]
                    ELSE [status |-> "ShortRead", value |-> NoValue, consumed |-> 0]]

current_action(sizeofT, junk) ==
  LET read == read_action(sizeofT)
      value == Prefix(inbound, read.copied) \o SubSeq(junk, read.copied + 1, sizeofT)
  IN  [calls |-> <<read>>,
       result |-> IF read.ret >= sizeofT
                    THEN [status |-> "ok", value |-> [type |-> "raw", val |-> value],
                          consumed |-> sizeofT]
                    ELSE [status |-> "ShortRead", value |-> NoValue, consumed |-> 0]]

unpack_action(T, fill) ==
  LET size == action_size
      read == read_action(size)
      buffer == Prefix(inbound, read.copied) \o [i \in 1..(size - read.copied) |-> fill]
  IN  [calls |-> <<[fn |-> "action_size", ret |-> size], read>>,
       result |-> IF T = "action" THEN unpack_action_bytes(buffer)
                  ELSE unpack_permission_level(buffer)]

(* ------------------------------ require_recipient ---------------------- *)
(* Variant: the remaining accounts are checked before the first. *)
RECURSIVE require_recipient_RightToLeft(_)
require_recipient_RightToLeft(args) ==
  IF Len(args) = 1 THEN <<host_require_recipient(args[1])>>
  ELSE LET rest == require_recipient_RightToLeft(Tail(args))
       IN  IF rest[Len(rest)].ok THEN rest \o <<host_require_recipient(Head(args))>>
           ELSE rest

(* Variant: the remaining accounts are dropped. *)
require_recipient_FirstOnly(args) == <<host_require_recipient(Head(args))>>

RECURSIVE require_recipient(_)
require_recipient(args) ==
  IF Len(args) = 1 THEN <<host_require_recipient(args[1])>>
  ELSE LET first == host_require_recipient(Head(args))
       IN  IF first.ok THEN <<first>> \o require_recipient(Tail(args))
           ELSE <<first>>

(* ------------------------------- state --------------------------------- *)
NoResult == [status |-> "none", value |-> NoValue, consumed |-> 0]

action == [account : Accounts, name : Names,
           authorization : SeqsUpTo(permission_level, MaxAuth),
           data : SeqsUpTo(Bytes, MaxData)]

Init ==
  /\ op = [name |-> "init"]
  /\ obj = NoValue
  /\ stream = <<>>
  /\ result = NoResult
  /\ calls = <<>>
  /\ inbound = <<>>
  /\ notified = {}
  /\ hostReports = "copied"

(* action a; a.account = ..; a.name = ..; a.authorization = ..; a.data = .. *)
AssignAction ==
  \E a \in action :
    /\ op.name = "init"
    /\ obj' = [type |-> "action", val |-> a]
    /\ op' = [name |-> "assign"]
    /\ stream' = <<>>
    /\ result' = NoResult
    /\ calls' = <<>>
    /\ UNCHANGED <<inbound, notified, hostReports>>

AssignPermissionLevel ==
  \E p \in permission_level :
    /\ op.name = "init"
    /\ obj' = [type |-> "permission_level", val |-> p]
    /\ op' = [name |-> "assign"]
    /\ stream' = <<>>
    /\ result' = NoResult
    /\ calls' = <<>>
    /\ UNCHANGED <<inbound, notified, hostReports>>

Construct ==
  \E T \in PayloadTypes :
    \E value \in PayloadValues(T), auth \in SeqsUpTo(permission_level, MaxAuth) :
      /\ op.name = "init"
      /\ obj' = [type |-> "action", val |-> ActionCtor(auth, T, value)]
      /\ op' = [name |-> "construct", auth |-> auth, T |-> T, value |-> value]
      /\ stream' = <<>>
      /\ result' = NoResult
      /\ calls' = <<>>
      /\ UNCHANGED <<inbound, notified, hostReports>>

Pack ==
  /\ obj.type # "none"
  /\ op.name \in {"assign", "construct"}
  /\ stream' = IF obj.type = "action" THEN pack_action(obj.val)
               ELSE pack_permission_level(obj.val)
  /\ op' = [name |-> "pack"]
  /\ result' = NoResult
  /\ calls' = <<>>
  /\ UNCHANGED <<obj, inbound, notified, hostReports>>

Unpack ==
  /\ op.name = "pack"
  /\ \E cut \in 0..Len(stream) :
       /\ result' = IF obj.type = "action" THEN unpack_action_bytes(Prefix(stream, cut))
                    ELSE unpack_permission_level(Prefix(stream, cut))
       /\ op' = [name |-> "unpack", cut |-> cut]
  /\ calls' = <<>>
  /\ UNCHANGED <<obj, stream, inbound, notified, hostReports>>

Send ==
  /\ obj.type = "action"
  /\ op.name \in {"assign", "construct"}
  /\ calls' = send(obj.val)
  /\ op' = [name |-> "send"]
  /\ stream' = <<>>
  /\ result' = NoResult
  /\ UNCHANGED <<obj, inbound, notified, hostReports>>

Next == AssignAction \/ AssignPermissionLevel \/ Construct \/ Pack \/ Unpack \/ Send

Spec == Init /\ [][Next]_vars

(* ------------------------- properties of the envelope ------------------- *)
Field(buf, first, w) == SubSeq(buf, first, first + w - 1)

IsEncoding(b, v, w) == Len(b) = w /\ FromLE(b) = v

PLWidth == 2 * IdWidth

(* C1: unpacking the bytes produced by packing a permission_level or an    *)
(* action yields a value equal field for field; the authorization list     *)
(* comes back with the same length and the same elements in the same       *)
(* positions, unsorted or duplicate entries included.                      *)
C1_RoundTrip ==
  (op.name = "unpack" /\ op.cut = Len(stream)) =>
     /\ result.status = "ok"
     /\ result.value.type = obj.type
     /\ obj.type = "permission_level" =>
          /\ result.value.val.actor = obj.val.actor
          /\ result.value.val.permission = obj.val.permission
     /\ obj.type = "action" =>
          /\ result.value.val.account = obj.val.account
          /\ result.value.val.name = obj.val.name
          /\ Len(result.value.val.authorization) = Len(obj.val.authorization)
          /\ \A i \in 1..Len(obj.val.authorization) :
               result.value.val.authorization[i] = obj.val.authorization[i]
          /\ result.value.val.data = obj.val.data

C1_Witness ==
  /\ op.name = "unpack"
  /\ op.cut = Len(stream)
  /\ obj.type = "action"
  /\ Len(obj.val.authorization) = 2
  /\ obj.val.authorization[1].actor > obj.val.authorization[2].actor
  /\ Len(obj.val.data) > 0
  /\ result.status = "ok"

(* C2: pack(action) is exactly encode(account) ++ encode(name) ++          *)
(* count(#authorization) ++ (encode(actor) ++ encode(permission)) per      *)
(* entry in list order ++ count(#data) ++ data, nothing else; and          *)
(* pack(permission_level{A,P}) is exactly encode(A) ++ encode(P).          *)
C2_WireLayout ==
  (op.name = "pack") =>
     /\ obj.type = "permission_level" =>
          /\ Len(stream) = PLWidth
          /\ IsEncoding(Field(stream, 1, IdWidth), obj.val.actor, IdWidth)
          /\ IsEncoding(Field(stream, IdWidth + 1, IdWidth), obj.val.permission, IdWidth)
     /\ obj.type = "action" =>
          LET a == obj.val
              n == Len(a.authorization)
              m == Len(a.data)
              authAt == 2 * IdWidth + CountWidth
              dataAt == authAt + n * PLWidth + CountWidth
          IN  /\ Len(stream) = dataAt + m
              /\ IsEncoding(Field(stream, 1, IdWidth), a.account, IdWidth)
              /\ IsEncoding(Field(stream, IdWidth + 1, IdWidth), a.name, IdWidth)
              /\ IsEncoding(Field(stream, 2 * IdWidth + 1, CountWidth), n, CountWidth)
              /\ \A k \in 1..n :
                   LET at == authAt + (k - 1) * PLWidth
                   IN  /\ IsEncoding(Field(stream, at + 1, IdWidth),
                                     a.authorization[k].actor, IdWidth)
                       /\ IsEncoding(Field(stream, at + IdWidth + 1, IdWidth),
                                     a.authorization[k].permission, IdWidth)
              /\ IsEncoding(Field(stream, authAt + n * PLWidth + 1, CountWidth),
                            m, CountWidth)
              /\ Field(stream, dataAt + 1, m) = a.data

C2_Witness ==
  /\ op.name = "pack"
  /\ obj.type = "action"
  /\ Len(obj.val.authorization) = 2
  /\ obj.val.authorization[1] # obj.val.authorization[2]
  /\ Len(obj.val.data) > 0

(* C3: unpacking any strict prefix of pack(v), v an action or a            *)
(* permission_level, fails with TruncatedInput and returns no value.       *)
C3_Truncation ==
  (op.name = "unpack" /\ op.cut < Len(stream)) =>
     /\ result.status = "TruncatedInput"
     /\ result.value = NoValue

C3_Witness ==
  /\ op.name = "unpack"
  /\ obj.type = "action"
  /\ Len(obj.val.data) > 0
  /\ op.cut = Len(stream) - 1
  /\ result.status = "TruncatedInput"

(* C6: action(auth, value) for a payload of type Action has account        *)
(* Action::get_account(), name Action::get_name() (the constants of        *)
(* action_meta<Account, Name>), authorization equal to auth in the same    *)
(* order, and data equal to pack(value).                                   *)
C6_Construction ==
  (op.name = "construct") =>
     /\ obj.type = "action"
     /\ obj.val.account = op.T.Account
     /\ obj.val.name = op.T.Name
     /\ obj.val.authorization = op.auth
     /\ Len(obj.val.data) = Len(op.T.fields) * op.T.width
     /\ \A i \in 1..Len(op.T.fields) :
          IsEncoding(Field(obj.val.data, (i - 1) * op.T.width + 1, op.T.width),
                     op.value[op.T.fields[i]], op.T.width)

C6_Witness ==
  /\ op.name = "construct"
  /\ op.T = Transfer
  /\ op.value.x = 258
  /\ Len(op.auth) = 2

(* C7: send() makes exactly one host call, send_inline, whose bytes are    *)
(* the packed encoding of the whole envelope and whose length is the       *)
(* length of those bytes, and it leaves the action unchanged.              *)
C7_Send ==
  [][op'.name = "send" =>
       /\ obj' = obj
       /\ Len(calls') = 1
       /\ calls'[1].fn = "send_inline"
       /\ calls'[1].len = Len(calls'[1].bytes)
       /\ unpack_action_bytes(calls'[1].bytes).status = "ok"
       /\ unpack_action_bytes(calls'[1].bytes).value = obj
       /\ unpack_action_bytes(calls'[1].bytes).consumed = Len(calls'[1].bytes)]_vars

C7_Witness ==
  /\ op.name = "send"
  /\ Len(calls) = 1
  /\ Len(obj.val.authorization) > 0
  /\ Len(obj.val.data) > 0

(* ------------------ specification: the inbound action ------------------ *)
RawSizes == {2, 4}

ReflectedTypes == {"permission_level", "action"}

Prefixes(b) == {Prefix(b, n) : n \in 0..Len(b)}

InboundActions ==
  {ActionCtor(auth, Ping, v) : auth \in SeqsUpTo(permission_level, 1),
                                v \in PayloadValues(Ping)}

InboundPayloads ==
  UNION {Prefixes(b \o extra) :
           b \in {pack_permission_level(p) : p \in permission_level}
                 \cup {pack_action(a) : a \in InboundActions},
           extra \in SeqsUpTo(Bytes, MaxExtra)}

InitInbound ==
  /\ op = [name |-> "init"]
  /\ obj = NoValue
  /\ stream = <<>>
  /\ result = NoResult
  /\ calls = <<>>
  /\ inbound \in InboundPayloads
  /\ notified = {}
  /\ hostReports \in {"copied", "available"}

CurrentAction ==
  \E sizeofT \in RawSizes :
    \E junk \in [1..sizeofT -> Bytes] :
      LET r == current_action(sizeofT, junk)
      IN  /\ op.name = "init"
          /\ op' = [name |-> "current_action", sizeofT |-> sizeofT]
          /\ calls' = r.calls
          /\ result' = r.result
          /\ UNCHANGED <<obj, stream, inbound, notified, hostReports>>

UnpackAction ==
  \E T \in ReflectedTypes, fill \in Bytes :
    LET r == unpack_action(T, fill)
    IN  /\ op.name = "init"
        /\ op' = [name |-> "unpack_action", T |-> T]
        /\ calls' = r.calls
        /\ result' = r.result
        /\ UNCHANGED <<obj, stream, inbound, notified, hostReports>>

NextInbound == CurrentAction \/ UnpackAction

SpecInbound == InitInbound /\ [][NextInbound]_vars

(* ------------------ specification: require_recipient ------------------- *)
InitRecipient ==
  /\ op = [name |-> "init"]
  /\ obj = NoValue
  /\ stream = <<>>
  /\ result = NoResult
  /\ calls = <<>>
  /\ inbound = <<>>
  /\ notified \in SUBSET Recipients
  /\ hostReports = "copied"

RequireRecipient ==
  \E args \in SeqsUpTo(Recipients, MaxArgs) \ {<<>>} :
    LET c == require_recipient(args)
    IN  /\ op.name = "init"
        /\ op' = [name |-> "require_recipient", args |-> args]
        /\ calls' = c
        /\ result' = [status |-> IF c[Len(c)].ok THEN "ok" ELSE "RecipientNotNotified",
                      value |-> NoValue, consumed |-> 0]
        /\ UNCHANGED <<obj, stream, inbound, notified, hostReports>>

NextRecipient == RequireRecipient

SpecRecipient == InitRecipient /\ [][NextRecipient]_vars

(* ---------------- properties of reading the inbound action ------------- *)
ReadCall == calls[Len(calls)]

(* C5: current_action<T>() fails with ShortRead and returns no value       *)
(* whenever the length read_action reports is less than sizeof(T),         *)
(* whatever the bytes read.                                                *)
C5_ShortRead ==
  (op.name = "current_action" /\ ReadCall.ret < op.sizeofT) =>
     /\ result.status = "ShortRead"
     /\ result.value = NoValue

C5_Witness ==
  /\ op.name = "current_action"
  /\ ReadCall.ret > 0
  /\ ReadCall.ret < op.sizeofT
  /\ result.status = "ShortRead"

(* C8: whenever current_action<T>() or unpack_action<T>() returns a value, *)
(* every byte the value was decoded from was delivered by read_action in   *)
(* that call; with fewer bytes delivered than consumed the call aborts.    *)
C8_NoPartialRead ==
  (op.name \in {"current_action", "unpack_action"} /\ result.status = "ok") =>
     /\ result.value # NoValue
     /\ ReadCall.fn = "read_action"
     /\ result.consumed <= ReadCall.copied
     /\ result.consumed <= ReadCall.ret

C8_Witness ==
  /\ op.name = "unpack_action"
  /\ op.T = "action"
  /\ result.status = "ok"
  /\ result.consumed > 0
  /\ result.consumed < Len(inbound)

(* C9: when read_action reports a length of sizeof(T) or more, strictly    *)
(* more included, current_action<T>() succeeds, asks the host for at most  *)
(* sizeof(T) bytes and returns the first sizeof(T) bytes of the payload.   *)
C9_OverLong ==
  (op.name = "current_action" /\ ReadCall.ret >= op.sizeofT) =>
     /\ result.status = "ok"
     /\ Len(calls) = 1
     /\ ReadCall.fn = "read_action"
     /\ ReadCall.max_len <= op.sizeofT
     /\ result.value = [type |-> "raw", val |-> Prefix(inbound, op.sizeofT)]

C9_Witness ==
  /\ op.name = "current_action"
  /\ ReadCall.ret > op.sizeofT
  /\ result.status = "ok"

(* --------------------- properties of require_recipient ----------------- *)
CalledNames == [i \in 1..Len(calls) |-> calls[i].name]

Absent(args) == {i \in 1..Len(args) : args[i] \notin notified}

FirstAbsent(args) == CHOOSE k \in Absent(args) : \A j \in Absent(args) : k <= j

(* C4 as stated: the checks run left to right and stop at the first        *)
(* rejected account, and with [A, B, C] and B absent the call fails        *)
(* exactly at B whatever the presence of A and C.                          *)
LeftToRight ==
  IF Absent(op.args) = {}
    THEN /\ CalledNames = op.args
         /\ result.status = "ok"
    ELSE LET k == FirstAbsent(op.args)
         IN  /\ CalledNames = Prefix(op.args, k)
             /\ result.status = "RecipientNotNotified"
             /\ \A i \in 1..(k - 1) : calls[i].ok
             /\ ~calls[k].ok
             /\ calls[k].name = op.args[k]

FailsAtSecond ==
  /\ result.status = "RecipientNotNotified"
  /\ ~calls[Len(calls)].ok
  /\ calls[Len(calls)].name = op.args[2]

Distinct3(args) ==
  Len(args) = 3 /\ args[1] # args[2] /\ args[2] # args[3] /\ args[1] # args[3]

C4_Original ==
  (op.name = "require_recipient") =>
     /\ LeftToRight
     /\ (Distinct3(op.args) /\ op.args[2] \notin notified) => FailsAtSecond

(* C4 (amended): require_recipient(a1, ..., an) issues the single-account  *)
(* host check once per argument from left to right and stops at the first  *)
(* account the host rejects: the checks issued are a1..ak, the failure is  *)
(* the one for ak, and nothing is checked after it. With [A, B, C], A      *)
(* present and B absent, it fails exactly at B whatever the presence of C. *)
C4_LeftToRight ==
  (op.name = "require_recipient") =>
     /\ LeftToRight
     /\ (Distinct3(op.args) /\ op.args[1] \in notified /\ op.args[2] \notin notified) =>
          (FailsAtSecond /\ Len(calls) = 2)

C4_Witness ==
  /\ op.name = "require_recipient"
  /\ Len(op.args) = 3
  /\ op.args[1] \in notified
  /\ op.args[2] \notin notified
  /\ op.args[3] \in notified
  /\ Len(calls) = 2

(* C10: whenever require_recipient(a1, ..., an) returns normally, every    *)
(* listed account is in the notified set; if one is not, the call does not *)
(* return normally.                                                        *)
C10_AllNotified ==
  (op.name = "require_recipient") =>
     (result.status = "ok" <=> \A i \in 1..Len(op.args) : op.args[i] \in notified)

C10_Witness ==
  /\ op.name = "require_recipient"
  /\ Len(op.args) = 3
  /\ op.args[1] # op.args[2]
  /\ op.args[2] # op.args[3]
  /\ result.status = "ok"

====
